---- MODULE Spec2Model ----
(***************************************************************************)
(* A model of emojis/emoji_manager.py: the emoji scanner (EMOJI_REGEX),    *)
(* the mapping builder (build_emoji_map), the substitution step            *)
(* (replace_emojis), the format handlers and the driver loop (main).       *)
(*                                                                         *)
(* A string is a sequence of Unicode code points (integers); an emoji, as  *)
(* the scanner sees it, is a non-empty sequence of code points.  A dict is *)
(* a function whose DOMAIN is its key set.  A call that can raise returns  *)
(* a record whose field exc names the exception ("none" when it returns).  *)
(***************************************************************************)
EXTENDS Integers, Sequences, FiniteSets, TLC

VARIABLES
    ANDROID_EMOJI_POOL,  \* the module-level pool list (a mutable Python list)
    call,                \* the last call of a pure function: its arguments and result
    listing,             \* what os.listdir returns: indices into Directory
    files,               \* main's filtered list, in listing order
    idx,                 \* position of the for loop in files
    pc,                  \* "start", "loop", "done" or "halted" (uncaught exception)
    log,                 \* one record per loop iteration begun
    out                  \* the output directory: file name -> text written

vars == <<ANDROID_EMOJI_POOL, call, listing, files, idx, pc, log, out>>

----------------------------------------------------------------------------
(* Bounds of the model. *)

MaxTextLen == 5
MaxEmojis == 3
MaxPool == 2
MaxFiles == 2

----------------------------------------------------------------------------
(* Code points used to write texts, by name. *)

CP ==
    [ dog |-> 128054, cat |-> 128049, apple |-> 127822, fox |-> 129418,
      strawberry |-> 127827, watch |-> 8986,
      x |-> 120, sp |-> 32, nl |-> 10, cr |-> 13, quote |-> 34, amp |-> 38,
      apos |-> 39, comma |-> 44, dot |-> 46, slash |-> 47, colon |-> 58,
      semi |-> 59, lt |-> 60, eq |-> 61, gt |-> 62, qm |-> 63, hash |-> 35, backslash |-> 92,
      lbrack |-> 91, rbrack |-> 93, lbrace |-> 123, rbrace |-> 125 ]

(* The five themed lists and their concatenation, as code-point sequences. *)

EMOJI_ANIMALS_NATURE ==
    << <<128054>>, <<128049>>, <<128045>>, <<128057>>, <<128048>>,
       <<129418>>, <<128059>>, <<128060>>, <<128040>>, <<128047>>,
       <<129409>>, <<128046>>, <<128055>>, <<128056>>, <<128053>>,
       <<129412>>, <<128020>>, <<128039>>, <<128038>>, <<128036>> >>

EMOJI_FOOD_DRINK ==
    << <<127823>>, <<127822>>, <<127824>>, <<127818>>, <<127819>>,
       <<127820>>, <<127817>>, <<127815>>, <<127827>>, <<129744>>,
       <<127816>>, <<127826>>, <<127825>>, <<129389>>, <<127821>>,
       <<129381>>, <<129373>>, <<127813>>, <<127814>>, <<129361>> >>

EMOJI_ACTIVITY ==
    << <<9917>>, <<127936>>, <<127944>>, <<9918>>, <<127934>>,
       <<127952>>, <<127945>>, <<127921>>, <<127955>>, <<127992>>,
       <<129349>>, <<127954>>, <<127953>>, <<127951>>, <<9971>>,
       <<127993>>, <<127907>>, <<129343>>, <<129354>>, <<129355>> >>

EMOJI_OBJECTS ==
    << <<8986>>, <<128241>>, <<128187>>, <<128424, 65039>>, <<128377, 65039>>,
       <<127918>>, <<128247>>, <<128248>>, <<128249>>, <<127909>>,
       <<128250>>, <<128251>>, <<127897, 65039>>, <<127898, 65039>>, <<127899, 65039>>,
       <<9742, 65039>>, <<128222>>, <<128223>>, <<128224>>, <<128267>> >>

EMOJI_PLACES ==
    << <<128663>>, <<128661>>, <<128665>>, <<128652>>, <<128654>>,
       <<127950, 65039>>, <<128659>>, <<128657>>, <<128658>>, <<128656>>,
       <<128763>>, <<128666>>, <<128667>>, <<128668>>, <<127949, 65039>>,
       <<128757>>, <<128690>>, <<128756>>, <<128680>>, <<128660>> >>

InitialPool ==
    EMOJI_ANIMALS_NATURE \o EMOJI_FOOD_DRINK \o EMOJI_ACTIVITY
        \o EMOJI_OBJECTS \o EMOJI_PLACES

(* The character class of EMOJI_REGEX: eleven closed code-point ranges. *)

EMOJI_REGEX ==
    << <<127744, 128511>>, <<128512, 128591>>, <<128640, 128767>>,
       <<128768, 128895>>, <<128896, 129023>>, <<129024, 129279>>,
       <<129280, 129535>>, <<129536, 129647>>, <<129648, 129791>>,
       <<9986, 10160>>, <<9410, 127569>> >>

InClass(c) ==
    \E r \in 1..Len(EMOJI_REGEX) : EMOJI_REGEX[r][1] <= c /\ c <= EMOJI_REGEX[r][2]

----------------------------------------------------------------------------
(* The scanner.  "[...]+" is greedy: a match that starts at pos extends over *)
(* every following code point of the class.                                  *)

RECURSIVE MatchGreedy(_, _)
MatchGreedy(text, pos) ==
    IF pos < Len(text) /\ InClass(text[pos + 1])
    THEN MatchGreedy(text, pos + 1)
    ELSE pos

MatchEnd_single(text, pos) == pos

MatchEnd(text, pos) == MatchGreedy(text, pos)

RECURSIVE findall_from(_, _)
findall_from(text, pos) ==
    IF pos > Len(text) THEN <<>>
    ELSE IF ~InClass(text[pos]) THEN findall_from(text, pos + 1)
    ELSE LET e == MatchEnd(text, pos)
         IN  <<SubSeq(text, pos, e)>> \o findall_from(text, e + 1)

findall(text) == findall_from(text, 1)

extract_emojis(text) == findall(text)

(* get_emojis_in_order: the loop over findall with the seen set. *)

RECURSIVE ordered_loop(_, _, _, _)
ordered_loop(found, k, seen, ordered) ==
    IF k > Len(found) THEN ordered
    ELSE LET em == found[k]
         IN  IF em \notin seen
             THEN ordered_loop(found, k + 1, seen \cup {em}, Append(ordered, em))
             ELSE ordered_loop(found, k + 1, seen, ordered)

get_emojis_in_order_noseen(text) == findall(text)

get_emojis_in_order(text) == ordered_loop(findall(text), 1, {}, <<>>)

----------------------------------------------------------------------------
(* build_emoji_map.  pool is the deque, arg the caller's list (which the     *)
(* code never touches: deque(emoji_pool) copies it).  popleft on an empty    *)
(* deque raises IndexError.                                                  *)

RECURSIVE build_loop(_, _, _, _, _)
build_loop(original_emojis, k, emoji_map, pool, arg) ==
    IF k > Len(original_emojis)
    THEN [exc |-> "none", val |-> emoji_map, emoji_pool |-> arg]
    ELSE LET emoji == original_emojis[k]
         IN  IF emoji \notin DOMAIN emoji_map
             THEN IF pool = <<>>
                  THEN [exc |-> "IndexError", val |-> emoji_map, emoji_pool |-> arg]
                  ELSE LET new_emoji == Head(pool)
                       IN  build_loop(original_emojis, k + 1,
                                      emoji_map @@ (emoji :> new_emoji),
                                      Append(Tail(pool), new_emoji), arg)
             ELSE build_loop(original_emojis, k + 1, emoji_map, pool, arg)

(* Variants of build_emoji_map with one plausible slip each. *)

RECURSIVE build_loop_pushfront(_, _, _, _, _)
build_loop_pushfront(original_emojis, k, emoji_map, pool, arg) ==
    IF k > Len(original_emojis)
    THEN [exc |-> "none", val |-> emoji_map, emoji_pool |-> arg]
    ELSE LET emoji == original_emojis[k]
         IN  IF emoji \notin DOMAIN emoji_map
             THEN IF pool = <<>>
                  THEN [exc |-> "IndexError", val |-> emoji_map, emoji_pool |-> arg]
                  ELSE LET new_emoji == Head(pool)
                       IN  build_loop_pushfront(original_emojis, k + 1,
                                      emoji_map @@ (emoji :> new_emoji),
                                      <<new_emoji>> \o Tail(pool), arg)
             ELSE build_loop_pushfront(original_emojis, k + 1, emoji_map, pool, arg)

build_emoji_map_pushfront(original_emojis, emoji_pool) ==
    build_loop_pushfront(original_emojis, 1, <<>>, emoji_pool, emoji_pool)

RECURSIVE build_loop_nocheck(_, _, _, _, _)
build_loop_nocheck(original_emojis, k, emoji_map, pool, arg) ==
    IF k > Len(original_emojis)
    THEN [exc |-> "none", val |-> emoji_map, emoji_pool |-> arg]
    ELSE LET emoji == original_emojis[k]
         IN  IF pool = <<>>
             THEN [exc |-> "IndexError", val |-> emoji_map, emoji_pool |-> arg]
             ELSE LET new_emoji == Head(pool)
                  IN  build_loop_nocheck(original_emojis, k + 1,
                                 (emoji :> new_emoji) @@ emoji_map,
                                 Append(Tail(pool), new_emoji), arg)

build_emoji_map_nocheck(original_emojis, emoji_pool) ==
    build_loop_nocheck(original_emojis, 1, <<>>, emoji_pool, emoji_pool)

RECURSIVE build_loop_inplace(_, _, _, _)
build_loop_inplace(original_emojis, k, emoji_map, pool) ==
    IF k > Len(original_emojis)
    THEN [exc |-> "none", val |-> emoji_map, emoji_pool |-> pool]
    ELSE LET emoji == original_emojis[k]
         IN  IF emoji \notin DOMAIN emoji_map
             THEN IF pool = <<>>
                  THEN [exc |-> "IndexError", val |-> emoji_map, emoji_pool |-> pool]
                  ELSE LET new_emoji == Head(pool)
                       IN  build_loop_inplace(original_emojis, k + 1,
                                      emoji_map @@ (emoji :> new_emoji),
                                      Append(Tail(pool), new_emoji))
             ELSE build_loop_inplace(original_emojis, k + 1, emoji_map, pool)

build_emoji_map_inplace(original_emojis, emoji_pool) ==
    build_loop_inplace(original_emojis, 1, <<>>, emoji_pool)

RECURSIVE build_loop_skipself(_, _, _, _, _)
build_loop_skipself(original_emojis, k, emoji_map, pool, arg) ==
    IF k > Len(original_emojis)
    THEN [exc |-> "none", val |-> emoji_map, emoji_pool |-> arg]
    ELSE LET emoji == original_emojis[k]
         IN  IF emoji \notin DOMAIN emoji_map
             THEN IF pool = <<>>
                  THEN [exc |-> "IndexError", val |-> emoji_map, emoji_pool |-> arg]
                  ELSE LET p == IF Head(pool) = emoji /\ Len(pool) > 1
                                THEN Append(Tail(pool), Head(pool))
                                ELSE pool
                           new_emoji == Head(p)
                       IN  build_loop_skipself(original_emojis, k + 1,
                                      emoji_map @@ (emoji :> new_emoji),
                                      Append(Tail(p), new_emoji), arg)
             ELSE build_loop_skipself(original_emojis, k + 1, emoji_map, pool, arg)

build_emoji_map_skipself(original_emojis, emoji_pool) ==
    build_loop_skipself(original_emojis, 1, <<>>, emoji_pool, emoji_pool)

build_emoji_map(original_emojis, emoji_pool) ==
    build_loop(original_emojis, 1, <<>>, emoji_pool, emoji_pool)

----------------------------------------------------------------------------
(* replace_emojis: EMOJI_REGEX.sub(replace_fn, text), left to right; every   *)
(* match is replaced by emoji_map.get(emoji, emoji).                         *)

replace_fn(emoji, emoji_map) ==
    IF emoji \in DOMAIN emoji_map THEN emoji_map[emoji] ELSE emoji

RECURSIVE sub_from(_, _, _)
sub_from(text, pos, emoji_map) ==
    IF pos > Len(text) THEN <<>>
    ELSE IF ~InClass(text[pos])
         THEN <<text[pos]>> \o sub_from(text, pos + 1, emoji_map)
         ELSE LET e == MatchEnd(text, pos)
              IN  replace_fn(SubSeq(text, pos, e), emoji_map)
                      \o sub_from(text, e + 1, emoji_map)

RECURSIVE sub_from_nodefault(_, _, _)
sub_from_nodefault(text, pos, emoji_map) ==
    IF pos > Len(text) THEN <<>>
    ELSE IF ~InClass(text[pos])
         THEN <<text[pos]>> \o sub_from_nodefault(text, pos + 1, emoji_map)
         ELSE LET e == MatchEnd(text, pos)
                  emoji == SubSeq(text, pos, e)
              IN  (IF emoji \in DOMAIN emoji_map THEN emoji_map[emoji] ELSE <<>>)
                      \o sub_from_nodefault(text, e + 1, emoji_map)

replace_emojis_nodefault(text, emoji_map) == sub_from_nodefault(text, 1, emoji_map)

replace_emojis(text, emoji_map) == sub_from(text, 1, emoji_map)

----------------------------------------------------------------------------
(* Fixed pieces of text, as code points. *)

RECURSIVE ConcatAll(_)
ConcatAll(ss) == IF ss = <<>> THEN <<>> ELSE Head(ss) \o ConcatAll(Tail(ss))

\* "<?xml version='1.0' encoding='utf-8'?>\n"
XML_DECLARATION ==
    <<60, 63, 120, 109, 108, 32, 118, 101, 114, 115, 105, 111, 110, 61, 39, 49, 46, 48, 39, 32, 101, 110,
        99, 111, 100, 105, 110, 103, 61, 39, 117, 116, 102, 45, 56, 39, 63, 62, 10>>

\* "&amp;"
XML_AMP == <<38, 97, 109, 112, 59>>

\* "&lt;"
XML_LT == <<38, 108, 116, 59>>

\* "&gt;"
XML_GT == <<38, 103, 116, 59>>

----------------------------------------------------------------------------
(* File names are sequences of one-character strings.  str.lower, endswith, *)
(* startswith and os.path.splitext as main uses them.                       *)

SUPPORTED_EXTS ==
    << <<".", "j", "s", "o", "n">>, <<".", "t", "x", "t">>, <<".", "m", "d">>,
       <<".", "c", "s", "v">>, <<".", "x", "m", "l">>,
       <<".", "h", "t", "m", "l">>, <<".", "h", "t", "m">> >>

OutputDirName == <<"o", "u", "t", "p", "u", "t">>

LowerChar(c) ==
    CASE c = "T" -> "t"
      [] c = "X" -> "x"
      [] c = "M" -> "m"
      [] c = "D" -> "d"
      [] OTHER -> c

lower(s) == [k \in DOMAIN s |-> LowerChar(s[k])]

endswith(s, suffix) ==
    /\ Len(s) >= Len(suffix)
    /\ SubSeq(s, Len(s) - Len(suffix) + 1, Len(s)) = suffix

startswith(s, prefix) ==
    /\ Len(s) >= Len(prefix)
    /\ SubSeq(s, 1, Len(prefix)) = prefix

(* os.path.splitext on a bare file name: the extension starts at the last   *)
(* dot, unless only dots precede it (a leading-dot name has no extension).  *)
splitext(name) ==
    LET dots == {k \in 1..Len(name) : name[k] = "."}
    IN  IF dots = {} THEN <<name, <<>>>>
        ELSE LET dotIndex == CHOOSE k \in dots : \A h \in dots : h <= k
             IN  IF \E h \in 1..(dotIndex - 1) : name[h] # "."
                 THEN <<SubSeq(name, 1, dotIndex - 1), SubSeq(name, dotIndex, Len(name))>>
                 ELSE <<name, <<>>>>

(* The filter of main's list comprehension for one directory entry. *)
Eligible(entry) ==
    /\ entry.isfile
    /\ \E x \in 1..Len(SUPPORTED_EXTS) : endswith(lower(entry.name), SUPPORTED_EXTS[x])
    /\ ~startswith(entry.name, OutputDirName)

(* load_file: an unreadable file (permissions, undecodable bytes) raises. *)
load_file(entry) ==
    IF entry.readable THEN [exc |-> "none", text |-> entry.text]
    ELSE [exc |-> "OSError", text |-> <<>>]

----------------------------------------------------------------------------
(* JSON.  A value is [t |-> "str", v |-> code points], [t |-> "list", v |->  *)
(* values], [t |-> "dict", v |-> <<[k |-> key, v |-> value], ...>>] or       *)
(* [t |-> "lit", v |-> the literal's text] for numbers, booleans and null.   *)

RECURSIVE Join(_, _)
Join(ss, sep) ==
    IF ss = <<>> THEN <<>>
    ELSE IF Len(ss) = 1 THEN ss[1]
    ELSE ss[1] \o sep \o Join(Tail(ss), sep)

RECURSIVE Spaces(_)
Spaces(n) == IF n = 0 THEN <<>> ELSE <<CP.sp>> \o Spaces(n - 1)

RECURSIVE json_escape(_)
json_escape(str) ==
    IF str = <<>> THEN <<>>
    ELSE (IF Head(str) \in {CP.quote, CP.backslash}
          THEN <<CP.backslash, Head(str)>> ELSE <<Head(str)>>) \o json_escape(Tail(str))

json_string(str) == <<CP.quote>> \o json_escape(str) \o <<CP.quote>>

(* json.dumps(obj, ensure_ascii=False, indent=...): indent is 0 for the     *)
(* compact one-line form ("," and ":" followed by a space), else the step.  *)
RECURSIVE json_dumps(_, _, _)
json_dumps(obj, indent, level) ==
    LET open(b)  == IF indent = 0 THEN <<b>>
                    ELSE <<b, CP.nl>> \o Spaces(indent * (level + 1))
        close(b) == IF indent = 0 THEN <<b>>
                    ELSE <<CP.nl>> \o Spaces(indent * level) \o <<b>>
        sep      == IF indent = 0 THEN <<CP.comma, CP.sp>>
                    ELSE <<CP.comma, CP.nl>> \o Spaces(indent * (level + 1))
    IN  CASE obj.t = "str" -> json_string(obj.v)
          [] obj.t = "lit" -> obj.v
          [] obj.t = "list" ->
                IF obj.v = <<>> THEN <<CP.lbrack, CP.rbrack>>
                ELSE open(CP.lbrack)
                     \o Join([k \in DOMAIN obj.v |->
                                 json_dumps(obj.v[k], indent, level + 1)], sep)
                     \o close(CP.rbrack)
          [] obj.t = "dict" ->
                IF obj.v = <<>> THEN <<CP.lbrace, CP.rbrace>>
                ELSE open(CP.lbrace)
                     \o Join([k \in DOMAIN obj.v |->
                                 json_string(obj.v[k].k) \o <<CP.colon, CP.sp>>
                                 \o json_dumps(obj.v[k].v, indent, level + 1)], sep)
                     \o close(CP.rbrace)

(* json.load: the entry carries the document its text denotes, or none. *)
json_load(entry) ==
    IF entry.parsed.ok THEN [exc |-> "none", data |-> entry.parsed.doc]
    ELSE [exc |-> "JSONDecodeError", data |-> <<>>]

RECURSIVE recursive_replace(_, _)
recursive_replace(obj, emoji_map) ==
    CASE obj.t = "str" -> [obj EXCEPT !.v = replace_emojis(obj.v, emoji_map)]
      [] obj.t = "list" ->
            [obj EXCEPT !.v = [k \in DOMAIN obj.v |-> recursive_replace(obj.v[k], emoji_map)]]
      [] obj.t = "dict" ->
            [obj EXCEPT !.v = [k \in DOMAIN obj.v |->
                [k |-> obj.v[k].k, v |-> recursive_replace(obj.v[k].v, emoji_map)]]]
      [] OTHER -> obj

process_json_file(entry, emoji_map) ==
    LET loaded == json_load(entry)
    IN  IF loaded.exc # "none" THEN [exc |-> loaded.exc, text |-> <<>>]
        ELSE [exc |-> "none",
              text |-> json_dumps(recursive_replace(loaded.data, emoji_map), 2, 0)]

----------------------------------------------------------------------------
(* CSV.  A parsed file is a sequence of rows, a row a sequence of cells.    *)
(* csv.writer: excel dialect, minimal quoting, "\r\n" after every row.      *)

csv_cell(cell) ==
    IF \E k \in DOMAIN cell : cell[k] \in {CP.comma, CP.quote, CP.nl, CP.cr}
    THEN <<CP.quote>>
         \o ConcatAll([k \in DOMAIN cell |->
                       IF cell[k] = CP.quote THEN <<CP.quote, CP.quote>> ELSE <<cell[k]>>])
         \o <<CP.quote>>
    ELSE cell

csv_writerows(rows) ==
    ConcatAll([r \in DOMAIN rows |->
                (IF rows[r] = <<(<<>>)>> THEN <<CP.quote, CP.quote>>
                 ELSE Join([k \in DOMAIN rows[r] |-> csv_cell(rows[r][k])], <<CP.comma>>))
                \o <<CP.cr, CP.nl>>])

csv_reader(entry) == entry.parsed.doc

process_csv_file(entry, emoji_map) ==
    LET reader == csv_reader(entry)
        new_rows == [r \in DOMAIN reader |->
                        [k \in DOMAIN reader[r] |-> replace_emojis(reader[r][k], emoji_map)]]
    IN  [exc |-> "none", text |-> csv_writerows(new_rows)]

----------------------------------------------------------------------------
(* Plain text and Markdown. *)

process_txt_file(entry, emoji_map) ==
    LET loaded == load_file(entry)
    IN  IF loaded.exc # "none" THEN [exc |-> loaded.exc, text |-> <<>>]
        ELSE [exc |-> "none", text |-> replace_emojis(loaded.text, emoji_map)]

process_md_file(entry, emoji_map) == process_txt_file(entry, emoji_map)

----------------------------------------------------------------------------
(* XML.  An element is [tag, text, tail, children]; an absent text or tail  *)
(* is the empty string (both are falsy in "if elem.text").                   *)

RECURSIVE xml_escape(_)
xml_escape(str) ==
    IF str = <<>> THEN <<>>
    ELSE (CASE Head(str) = CP.amp -> XML_AMP
            [] Head(str) = CP.lt -> XML_LT
            [] Head(str) = CP.gt -> XML_GT
            [] OTHER -> <<Head(str)>>) \o xml_escape(Tail(str))

RECURSIVE xml_serialize(_)
xml_serialize(elem) ==
    (IF elem.text = <<>> /\ elem.children = <<>>
     THEN <<CP.lt>> \o elem.tag \o <<CP.sp, CP.slash, CP.gt>>
     ELSE <<CP.lt>> \o elem.tag \o <<CP.gt>>
          \o xml_escape(elem.text)
          \o ConcatAll([k \in DOMAIN elem.children |-> xml_serialize(elem.children[k])])
          \o <<CP.lt, CP.slash>> \o elem.tag \o <<CP.gt>>)
    \o xml_escape(elem.tail)

(* tree.write(dst, encoding="utf-8", xml_declaration=True) *)
xml_write(root) == XML_DECLARATION \o xml_serialize(root)

ET_parse(entry) ==
    IF entry.parsed.ok THEN [exc |-> "none", root |-> entry.parsed.doc]
    ELSE [exc |-> "ParseError", root |-> <<>>]

RECURSIVE recursive_xml(_, _)
recursive_xml(elem, emoji_map) ==
    [tag |-> elem.tag,
     text |-> IF elem.text # <<>> THEN replace_emojis(elem.text, emoji_map) ELSE elem.text,
     tail |-> IF elem.tail # <<>> THEN replace_emojis(elem.tail, emoji_map) ELSE elem.tail,
     children |-> [k \in DOMAIN elem.children |->
                      recursive_xml(elem.children[k], emoji_map)]]

process_xml_file(entry, emoji_map) ==
    LET tree == ET_parse(entry)
    IN  IF tree.exc # "none" THEN [exc |-> tree.exc, text |-> <<>>]
        ELSE [exc |-> "none", text |-> xml_write(recursive_xml(tree.root, emoji_map))]

----------------------------------------------------------------------------
(* HTML.  The text of a file is a sequence of tokens: start tags, end tags, *)
(* character data, entity references (&name;) and numeric character         *)
(* references (&#n;).  MyHTMLParser calls HTMLParser.__init__ without       *)
(* arguments, so convert_charrefs keeps its default, True: the parser       *)
(* unescapes the references of a stretch of character data itself and hands *)
(* the whole stretch to handle_data; handle_entityref and handle_charref    *)
(* are called only when convert_charrefs is False.                          *)

convert_charrefs == TRUE

RECURSIVE Digits(_)
Digits(n) == IF n < 10 THEN <<48 + n>> ELSE Digits(n \div 10) \o <<48 + (n % 10)>>

\* "amp", "lt"
ENTITY_AMP == <<97, 109, 112>>

ENTITY_LT == <<108, 116>>

handle_starttag(tag, attrs) ==
    <<CP.lt>> \o tag
    \o ConcatAll([a \in DOMAIN attrs |->
                    <<CP.sp>> \o attrs[a].k \o <<CP.eq, CP.quote>> \o attrs[a].v \o <<CP.quote>>])
    \o <<CP.gt>>

handle_endtag(tag) == <<CP.lt, CP.slash>> \o tag \o <<CP.gt>>

handle_data(data, emoji_map) == replace_emojis(data, emoji_map)

handle_entityref(name) == <<CP.amp>> \o name \o <<CP.semi>>

handle_charref(name) == <<CP.amp, CP.hash>> \o name \o <<CP.semi>>

(* html.unescape of one reference. *)
unescape_entityref(name) ==
    CASE name = ENTITY_AMP -> <<CP.amp>>
      [] name = ENTITY_LT -> <<CP.lt>>
      [] OTHER -> handle_entityref(name)

unescape_charref(n) == <<n>>

(* The source text of a token. *)
token_source(tok) ==
    CASE tok.kind = "start" -> handle_starttag(tok.tag, tok.attrs)
      [] tok.kind = "end" -> handle_endtag(tok.tag)
      [] tok.kind = "data" -> tok.text
      [] tok.kind = "entityref" -> handle_entityref(tok.name)
      [] tok.kind = "charref" -> handle_charref(Digits(tok.n))

html_source(tokens) == ConcatAll([k \in DOMAIN tokens |-> token_source(tokens[k])])

(* parser.feed: pending is the stretch of character data collected so far. *)
RECURSIVE goahead(_, _, _, _, _)
goahead(tokens, k, pending, result, emoji_map) ==
    LET flushed == IF pending = <<>> THEN result
                   ELSE Append(result, handle_data(pending, emoji_map))
    IN  IF k > Len(tokens) THEN flushed
        ELSE LET tok == tokens[k]
             IN  CASE tok.kind = "start" ->
                        goahead(tokens, k + 1, <<>>,
                                Append(flushed, handle_starttag(tok.tag, tok.attrs)), emoji_map)
                   [] tok.kind = "end" ->
                        goahead(tokens, k + 1, <<>>,
                                Append(flushed, handle_endtag(tok.tag)), emoji_map)
                   [] tok.kind = "data" ->
                        IF convert_charrefs
                        THEN goahead(tokens, k + 1, pending \o tok.text, result, emoji_map)
                        ELSE goahead(tokens, k + 1, <<>>,
                                     Append(result, handle_data(tok.text, emoji_map)), emoji_map)
                   [] tok.kind = "entityref" ->
                        IF convert_charrefs
                        THEN goahead(tokens, k + 1, pending \o unescape_entityref(tok.name),
                                     result, emoji_map)
                        ELSE goahead(tokens, k + 1, <<>>,
                                     Append(result, handle_entityref(tok.name)), emoji_map)
                   [] tok.kind = "charref" ->
                        IF convert_charrefs
                        THEN goahead(tokens, k + 1, pending \o unescape_charref(tok.n),
                                     result, emoji_map)
                        ELSE goahead(tokens, k + 1, <<>>,
                                     Append(result, handle_charref(Digits(tok.n))), emoji_map)

feed(tokens, emoji_map) == goahead(tokens, 1, <<>>, <<>>, emoji_map)

get_html(result) == ConcatAll(result)

process_html_file(entry, emoji_map) ==
    LET loaded == load_file(entry)
    IN  IF loaded.exc # "none" THEN [exc |-> loaded.exc, text |-> <<>>]
        ELSE [exc |-> "none", text |-> get_html(feed(entry.parsed.doc, emoji_map))]

----------------------------------------------------------------------------
(* The directory main runs in: every entry os.listdir may return, with the  *)
(* text of the file and, for the structured formats, what its parser makes  *)
(* of that text.                                                            *)

Str(v) == [t |-> "str", v |-> v]

\* {"a": "<dog><dog>", "b": ["<apple>"]}
JsonPets ==
    [t |-> "dict",
     v |-> << [k |-> <<97>>, v |-> Str(<<CP.dog, CP.dog>>)],
              [k |-> <<98>>, v |-> [t |-> "list", v |-> <<Str(<<CP.apple>>)>>]] >>]

\* {"<dog>": ["<apple> <cat>", 1, {}], "b": []}
JsonMixed ==
    [t |-> "dict",
     v |-> << [k |-> <<CP.dog>>,
               v |-> [t |-> "list",
                      v |-> << Str(<<CP.apple, CP.sp, CP.cat>>),
                               [t |-> "lit", v |-> <<49>>],
                               [t |-> "dict", v |-> <<>>] >>]],
              [k |-> <<98>>, v |-> [t |-> "list", v |-> <<>>]] >>]

\* <dog>,x / <apple>,"<dog>,<dog>"
CsvRows ==
    << << <<CP.dog>>, <<CP.x>> >>,
       << <<CP.apple>>, <<CP.dog, CP.comma, CP.dog>> >> >>

\* <r><dog><c>x</c><apple><c /></r>
XmlTree ==
    [tag |-> <<114>>, text |-> <<CP.dog>>, tail |-> <<>>,
     children |-> << [tag |-> <<99>>, text |-> <<CP.x>>, tail |-> <<CP.apple>>,
                      children |-> <<>>],
                     [tag |-> <<99>>, text |-> <<>>, tail |-> <<>>, children |-> <<>>] >>]

\* <p>Hi &amp; <dog></p>
HtmlEntity ==
    << [kind |-> "start", tag |-> <<112>>, attrs |-> <<>>],
       [kind |-> "data", text |-> <<72, 105, 32>>],
       [kind |-> "entityref", name |-> ENTITY_AMP],
       [kind |-> "data", text |-> <<CP.sp, CP.dog>>],
       [kind |-> "end", tag |-> <<112>>] >>

\* <p c="x"><apple>&#128049;</p>
HtmlCharref ==
    << [kind |-> "start", tag |-> <<112>>, attrs |-> <<[k |-> <<99>>, v |-> <<CP.x>>]>>],
       [kind |-> "data", text |-> <<CP.apple>>],
       [kind |-> "charref", n |-> CP.cat],
       [kind |-> "end", tag |-> <<112>>] >>

\* <p>Hi <dog></p>
HtmlPlain ==
    << [kind |-> "start", tag |-> <<112>>, attrs |-> <<>>],
       [kind |-> "data", text |-> <<72, 105, 32>> \o <<CP.dog>>],
       [kind |-> "end", tag |-> <<112>>] >>

NotParsed == [ok |-> FALSE, doc |-> <<>>]

Parsed(doc) == [ok |-> TRUE, doc |-> doc]

File(name, text, parsed) ==
    [name |-> name, isfile |-> TRUE, readable |-> TRUE, text |-> text, parsed |-> parsed]

Directory ==
    << File(<<"a", ".", "t", "x", "t">>, <<CP.x, CP.dog, CP.x, CP.apple, CP.dog>>, NotParsed),
       File(<<"n", ".", "t", "x", "t">>, <<CP.x, CP.sp, CP.watch>>, NotParsed),
       File(<<"b", ".", "T", "X", "T">>, <<CP.fox, CP.sp, CP.dog>>, NotParsed),
       File(<<"c", ".", "m", "d">>, <<CP.apple, CP.apple, CP.hash, CP.apple>>, NotParsed),
       File(<<"d", ".", "j", "s", "o", "n">>, json_dumps(JsonPets, 0, 0), Parsed(JsonPets)),
       File(<<"m", ".", "j", "s", "o", "n">>, json_dumps(JsonMixed, 0, 0), Parsed(JsonMixed)),
       File(<<"e", ".", "j", "s", "o", "n">>, <<CP.lbrace, CP.quote, CP.dog>>, NotParsed),
       File(<<"f", ".", "c", "s", "v">>, csv_writerows(CsvRows), Parsed(CsvRows)),
       File(<<"g", ".", "x", "m", "l">>, xml_serialize(XmlTree), Parsed(XmlTree)),
       File(<<"h", ".", "x", "m", "l">>, <<CP.lt>> \o <<114>> \o <<CP.gt, CP.dog>>, NotParsed),
       File(<<"i", ".", "h", "t", "m", "l">>, html_source(HtmlEntity), Parsed(HtmlEntity)),
       File(<<"j", ".", "h", "t", "m">>, html_source(HtmlCharref), Parsed(HtmlCharref)),
       File(<<"k", ".", "h", "t", "m", "l">>, html_source(HtmlPlain), Parsed(HtmlPlain)),
       File(<<".", "t", "x", "t">>, <<CP.dog>>, NotParsed),
       File(<<"o", "u", "t", "p", "u", "t", ".", "t", "x", "t">>, <<CP.dog>>, NotParsed),
       File(<<"k", ".", "p", "y">>, <<CP.dog>>, NotParsed),
       [File(<<"u", ".", "t", "x", "t">>, <<CP.dog>>, NotParsed) EXCEPT !.readable = FALSE],
       [File(<<"s", ".", "m", "d">>, <<>>, NotParsed) EXCEPT !.isfile = FALSE] >>

(* What os.listdir may return: some entries, each once, in any order. *)
Listings ==
    {l \in UNION {[1..n -> 1..Len(Directory)] : n \in 0..MaxFiles} :
        \A a, b \in DOMAIN l : a # b => l[a] # l[b]}

----------------------------------------------------------------------------
(* main. *)

(* No pure-function call recorded. *)
NoCall ==
    [fn |-> "none", text |-> <<>>, original_emojis |-> <<>>,
     emoji_pool |-> <<>>, emoji_map |-> <<>>, ret |-> <<>>]

Init ==
    /\ ANDROID_EMOJI_POOL = InitialPool
    /\ call = NoCall
    /\ listing \in Listings
    /\ files = <<>>
    /\ idx = 0
    /\ pc = "start"
    /\ log = <<>>
    /\ out = <<>>

(* Lines 174-180: the output directory and the list of eligible files. *)
Main_Start ==
    /\ pc = "start"
    /\ files' = SelectSeq(listing, LAMBDA f : Eligible(Directory[f]))
    /\ idx' = 1
    /\ pc' = "loop"
    /\ UNCHANGED <<ANDROID_EMOJI_POOL, call, listing, log, out>>

InLoop == pc = "loop" /\ idx <= Len(files)

Current == Directory[files[idx]]

original_emojis == get_emojis_in_order(load_file(Current).text)

ext == lower(splitext(Current.name)[2])

dst_path == [dir |-> OutputDirName, name |-> Current.name]

LogEntry(event, handler, oe, emoji_map) ==
    [file |-> files[idx], name |-> Current.name, event |-> event, handler |-> handler,
     dst |-> IF handler # "none" THEN dst_path ELSE [dir |-> <<>>, name |-> <<>>],
     original_emojis |-> oe, emoji_map |-> emoji_map]

(* Nothing in main catches an exception: the run ends where it is raised. *)
Raise_caught(entry) ==
    /\ log' = Append(log, entry)
    /\ pc' = pc
    /\ idx' = idx + 1
    /\ out' = out

Raise(entry) ==
    /\ log' = Append(log, entry)
    /\ pc' = "halted"
    /\ idx' = idx
    /\ out' = out

save_file(dst, content) == out' = (dst.name :> content) @@ out

(* Lines 186-190, text unreadable. *)
Iter_LoadError ==
    /\ InLoop
    /\ load_file(Current).exc # "none"
    /\ Raise(LogEntry("load_error", "none", <<>>, <<>>))
    /\ UNCHANGED <<ANDROID_EMOJI_POOL, call, listing, files>>

(* Lines 186-190, no emoji: notice and continue. *)
Iter_Skip ==
    /\ InLoop
    /\ load_file(Current).exc = "none"
    /\ original_emojis = <<>>
    /\ log' = Append(log, LogEntry("skip", "none", <<>>, <<>>))
    /\ idx' = idx + 1
    /\ UNCHANGED <<ANDROID_EMOJI_POOL, call, listing, files, pc, out>>

(* The call of the handler a branch of the if/elif chain names. *)
CallHandler(handler, entry, emoji_map) ==
    CASE handler = "process_json_file" -> process_json_file(entry, emoji_map)
      [] handler = "process_txt_file" -> process_txt_file(entry, emoji_map)
      [] handler = "process_md_file" -> process_md_file(entry, emoji_map)
      [] handler = "process_csv_file" -> process_csv_file(entry, emoji_map)
      [] handler = "process_xml_file" -> process_xml_file(entry, emoji_map)
      [] handler = "process_html_file" -> process_html_file(entry, emoji_map)

(* Lines 191-204 for the branch that calls handler. *)
Dispatch(handler) ==
    LET built == build_emoji_map(original_emojis, ANDROID_EMOJI_POOL)
    IN  /\ ANDROID_EMOJI_POOL' = built.emoji_pool
        /\ IF built.exc # "none"
           THEN Raise(LogEntry("map_error", "none", original_emojis, built.val))
           ELSE LET res == CallHandler(handler, Current, built.val)
                IN  IF res.exc # "none"
                    THEN Raise(LogEntry("handler_error", handler, original_emojis, built.val))
                    ELSE /\ save_file(dst_path, res.text)
                         /\ log' = Append(log, LogEntry("handled", handler,
                                                        original_emojis, built.val))
                         /\ idx' = idx + 1
                         /\ pc' = pc
        /\ UNCHANGED <<call, listing, files>>

HasEmojis == InLoop /\ load_file(Current).exc = "none" /\ original_emojis # <<>>

Iter_Json ==
    /\ HasEmojis
    /\ ext = SUPPORTED_EXTS[1]
    /\ Dispatch("process_json_file")

Iter_Txt ==
    /\ HasEmojis
    /\ ext = SUPPORTED_EXTS[2]
    /\ Dispatch("process_txt_file")

Iter_Md ==
    /\ HasEmojis
    /\ ext = SUPPORTED_EXTS[3]
    /\ Dispatch("process_md_file")

Iter_Csv ==
    /\ HasEmojis
    /\ ext = SUPPORTED_EXTS[4]
    /\ Dispatch("process_csv_file")

Iter_Xml ==
    /\ HasEmojis
    /\ ext = SUPPORTED_EXTS[5]
    /\ Dispatch("process_xml_file")

Iter_Html ==
    /\ HasEmojis
    /\ ext \in {SUPPORTED_EXTS[6], SUPPORTED_EXTS[7]}
    /\ Dispatch("process_html_file")

(* Lines 205-206: the map is built, then only the notice is printed. *)
Iter_Unsupported ==
    /\ HasEmojis
    /\ \A x \in 1..Len(SUPPORTED_EXTS) : ext # SUPPORTED_EXTS[x]
    /\ LET built == build_emoji_map(original_emojis, ANDROID_EMOJI_POOL)
       IN  /\ ANDROID_EMOJI_POOL' = built.emoji_pool
           /\ IF built.exc # "none"
              THEN Raise(LogEntry("map_error", "none", original_emojis, built.val))
              ELSE /\ log' = Append(log, LogEntry("unsupported", "none",
                                                  original_emojis, built.val))
                   /\ idx' = idx + 1
                   /\ UNCHANGED <<pc, out>>
    /\ UNCHANGED <<call, listing, files>>

Main_Done ==
    /\ pc = "loop"
    /\ idx > Len(files)
    /\ pc' = "done"
    /\ UNCHANGED <<ANDROID_EMOJI_POOL, call, listing, files, idx, log, out>>

Next ==
    \/ Main_Start
    \/ Iter_LoadError
    \/ Iter_Skip
    \/ Iter_Json
    \/ Iter_Txt
    \/ Iter_Md
    \/ Iter_Csv
    \/ Iter_Xml
    \/ Iter_Html
    \/ Iter_Unsupported
    \/ Main_Done

Spec == Init /\ [][Next]_vars

----------------------------------------------------------------------------
(* Calls of the pure functions on bounded inputs: one call per behaviour,   *)
(* recorded with its arguments and its result.                              *)

Alphabet == {CP.dog, CP.apple, CP.x}

Texts == UNION {[1..n -> Alphabet] : n \in 0..MaxTextLen}

InputEmojis == {<<CP.dog>>, <<CP.apple>>, <<CP.dog, CP.dog>>}

EmojiSeqs == UNION {[1..n -> InputEmojis] : n \in 0..MaxEmojis}

PoolValues == {<<CP.fox>>, <<CP.strawberry>>, <<CP.dog>>}

Pools == UNION {[1..n -> PoolValues] : n \in 0..MaxPool}

MapValues == {<<CP.fox>>, <<CP.strawberry, CP.strawberry>>}

Maps == UNION {[S -> MapValues] : S \in SUBSET InputEmojis}

DriverIdle ==
    /\ ANDROID_EMOJI_POOL = InitialPool
    /\ listing = <<>>
    /\ files = <<>>
    /\ idx = 0
    /\ pc = "start"
    /\ log = <<>>
    /\ out = <<>>

Call_get_emojis_in_order ==
    /\ call.fn = "none"
    /\ \E t \in Texts :
          call' = [NoCall EXCEPT !.fn = "get_emojis_in_order", !.text = t,
                                 !.ret = get_emojis_in_order(t)]
    /\ UNCHANGED <<ANDROID_EMOJI_POOL, listing, files, idx, pc, log, out>>

Call_build_emoji_map ==
    /\ call.fn = "none"
    /\ \E oe \in EmojiSeqs, p \in Pools :
          call' = [NoCall EXCEPT !.fn = "build_emoji_map", !.original_emojis = oe,
                                 !.emoji_pool = p, !.ret = build_emoji_map(oe, p)]
    /\ UNCHANGED <<ANDROID_EMOJI_POOL, listing, files, idx, pc, log, out>>

Call_replace_emojis ==
    /\ call.fn = "none"
    /\ \E t \in Texts, m \in Maps :
          call' = [NoCall EXCEPT !.fn = "replace_emojis", !.text = t,
                                 !.emoji_map = m, !.ret = replace_emojis(t, m)]
    /\ UNCHANGED <<ANDROID_EMOJI_POOL, listing, files, idx, pc, log, out>>

InitFn == call = NoCall /\ DriverIdle

NextFn ==
    \/ Call_get_emojis_in_order
    \/ Call_build_emoji_map
    \/ Call_replace_emojis

SpecFn == InitFn /\ [][NextFn]_vars

----------------------------------------------------------------------------
(* Helpers of the properties. *)

Range(s) == {s[k] : k \in DOMAIN s}

NoDuplicates(s) == \A a, b \in DOMAIN s : a # b => s[a] # s[b]

FirstIdxs(s) == {k \in 1..Len(s) : \A h \in 1..(k - 1) : s[h] # s[k]}

(* The distinct values of s in the order of their first occurrence. *)
Distinct(s) ==
    LET I == FirstIdxs(s)
    IN  [j \in 1..Cardinality(I) |->
            s[CHOOSE k \in I : Cardinality({h \in I : h < k}) = j - 1]]

IsRunStart(text, k) == InClass(text[k]) /\ (k = 1 \/ ~InClass(text[k - 1]))

RunEnd(text, k) ==
    CHOOSE e \in k..Len(text) :
        /\ \A h \in k..e : InClass(text[h])
        /\ e = Len(text) \/ ~InClass(text[e + 1])

RunAt(text, k) == SubSeq(text, k, RunEnd(text, k))

(* What position k of text contributes to the substituted text. *)
Piece(text, m, k) ==
    IF ~InClass(text[k]) THEN <<text[k]>>
    ELSE IF IsRunStart(text, k)
         THEN IF RunAt(text, k) \in DOMAIN m THEN m[RunAt(text, k)] ELSE RunAt(text, k)
         ELSE <<>>

Substituted(text, m) == ConcatAll([k \in 1..Len(text) |-> Piece(text, m, k)])

Runs(text) == {RunAt(text, k) : k \in {h \in 1..Len(text) : IsRunStart(text, h)}}

----------------------------------------------------------------------------
(* C1: for a pool without duplicates and an input whose number of distinct *)
(* values is at most the pool size, build_emoji_map returns an injective   *)
(* map: no two distinct keys have the same replacement.                    *)
C1_Injective ==
    (/\ call.fn = "build_emoji_map"
     /\ NoDuplicates(call.emoji_pool)
     /\ Cardinality(Range(call.original_emojis)) <= Len(call.emoji_pool))
    => /\ call.ret.exc = "none"
       /\ \A a, b \in DOMAIN call.ret.val :
             a # b => call.ret.val[a] # call.ret.val[b]

C1_Witness ==
    /\ call.fn = "build_emoji_map"
    /\ NoDuplicates(call.emoji_pool)
    /\ Cardinality(Range(call.original_emojis)) <= Len(call.emoji_pool)
    /\ ~NoDuplicates(call.original_emojis)
    /\ Cardinality(DOMAIN call.ret.val) = 2

(* C2: replace_emojis returns the text in which every maximal run of       *)
(* in-class code points is replaced by the map's value when the run is a   *)
(* key and kept when it is not, with every other code point kept in place; *)
(* a text without a match is returned unchanged.                           *)
C2_Substitution ==
    call.fn = "replace_emojis"
    => /\ call.ret = Substituted(call.text, call.emoji_map)
       /\ (\A k \in 1..Len(call.text) : ~InClass(call.text[k])) => call.ret = call.text

C2_Witness ==
    /\ call.fn = "replace_emojis"
    /\ \E r \in Runs(call.text) : r \in DOMAIN call.emoji_map
    /\ \E r \in Runs(call.text) : r \notin DOMAIN call.emoji_map
    /\ \E k \in 1..Len(call.text) : ~InClass(call.text[k])
    /\ call.ret # call.text

----------------------------------------------------------------------------
(* Properties of the driver. *)

Fatal(e) == e.event \in {"load_error", "map_error", "handler_error"}

BuiltMap(e) == e.event \in {"handled", "handler_error", "unsupported"}

PoolAt(q) == InitialPool[((q - 1) % Len(InitialPool)) + 1]

(* C5, as claimed: in the map the driver builds for a file with the        *)
(* reference pool, no key is mapped to itself.                             *)
C5_NoSelfMapping ==
    \A j \in DOMAIN log :
        \A key \in DOMAIN log[j].emoji_map : log[j].emoji_map[key] # key

(* C5, amended: every emoji found in a processed file is replaced by an    *)
(* emoji of the reference pool, and a pool member gets no special          *)
(* treatment: the q-th distinct emoji of the file is mapped to itself      *)
(* exactly when it is the pool element at its own round-robin position.    *)
C5_PoolReplacement ==
    \A j \in DOMAIN log :
        BuiltMap(log[j]) =>
            \A q \in DOMAIN log[j].original_emojis :
                LET key == log[j].original_emojis[q]
                IN  /\ log[j].emoji_map[key] \in Range(InitialPool)
                    /\ (log[j].emoji_map[key] = key) <=> (key = PoolAt(q))

C5_Witness ==
    \E j \in DOMAIN log :
        /\ log[j].event = "handled"
        /\ \E key \in DOMAIN log[j].emoji_map :
              key \in Range(InitialPool) /\ log[j].emoji_map[key] = key
        /\ \E key \in DOMAIN log[j].emoji_map : log[j].emoji_map[key] # key

(* The handler of the supported extension a file name ends with. *)
ExtensionHandler(name) ==
    LET n == lower(name)
    IN  CASE endswith(n, SUPPORTED_EXTS[1]) -> "process_json_file"
          [] endswith(n, SUPPORTED_EXTS[2]) -> "process_txt_file"
          [] endswith(n, SUPPORTED_EXTS[3]) -> "process_md_file"
          [] endswith(n, SUPPORTED_EXTS[4]) -> "process_csv_file"
          [] endswith(n, SUPPORTED_EXTS[5]) -> "process_xml_file"
          [] endswith(n, SUPPORTED_EXTS[6]) -> "process_html_file"
          [] endswith(n, SUPPORTED_EXTS[7]) -> "process_html_file"
          [] OTHER -> "none"

(* C6: for every eligible file the loop reaches and reads: without a       *)
(* scanner match no handler is called and no output file is written, and   *)
(* the run goes on; with a match the map is built and exactly the handler  *)
(* of the file's extension is called, with the same file name under the    *)
(* output directory as destination.                                        *)
C6_SkipOrDispatch ==
    \A j \in DOMAIN log :
        LET e == log[j]
            f == Directory[e.file]
        IN  f.readable =>
                IF findall(f.text) = <<>>
                THEN /\ e.event = "skip"
                     /\ e.handler = "none"
                     /\ e.name \notin DOMAIN out
                     /\ j = Len(log) => pc # "halted"
                ELSE /\ BuiltMap(e)
                     /\ DOMAIN e.emoji_map = Range(findall(f.text))
                     /\ e.handler = ExtensionHandler(e.name)
                     /\ e.dst = [dir |-> OutputDirName, name |-> e.name]

(* C6 without the file names that consist of dots and a supported          *)
(* extension only, for which os.path.splitext finds no extension.          *)
C6_ExceptDotFiles ==
    \A j \in DOMAIN log :
        LET e == log[j]
            f == Directory[e.file]
        IN  (f.readable /\ splitext(e.name)[2] # <<>>) =>
                IF findall(f.text) = <<>>
                THEN /\ e.event = "skip"
                     /\ e.handler = "none"
                     /\ e.name \notin DOMAIN out
                     /\ j = Len(log) => pc # "halted"
                ELSE /\ BuiltMap(e)
                     /\ DOMAIN e.emoji_map = Range(findall(f.text))
                     /\ e.handler = ExtensionHandler(e.name)
                     /\ e.dst = [dir |-> OutputDirName, name |-> e.name]

PetsFile ==
    CHOOSE f \in 1..Len(Directory) : Directory[f].name = <<"d", ".", "j", "s", "o", "n">>

PetsHandled == \E j \in DOMAIN log : log[j].file = PetsFile /\ log[j].event = "handled"

PetsOutput(a, b) ==
    json_dumps([t |-> "dict",
                v |-> << [k |-> <<97>>, v |-> Str(a)],
                         [k |-> <<98>>, v |-> [t |-> "list", v |-> <<Str(b)>>]] >>], 2, 0)

(* C7, as claimed: {"a": "DD", "b": ["A"]} (D, A two emojis) yields        *)
(* {"a": "rr", "b": ["s"]}, r the pool's first element and s its second.   *)
C7_EachOccurrenceReplaced ==
    PetsHandled =>
        out[Directory[PetsFile].name]
            = PetsOutput(InitialPool[1] \o InitialPool[1], InitialPool[2])

(* C7, amended: the two adjacent D are one scanner run, which is one key:  *)
(* the document yields {"a": "r", "b": ["s"]}, the run DD replaced by a    *)
(* single r and the next distinct run A by s.                              *)
C7_RunReplacedOnce ==
    PetsHandled =>
        /\ out[Directory[PetsFile].name] = PetsOutput(InitialPool[1], InitialPool[2])
        /\ \A j \in DOMAIN log :
              log[j].file = PetsFile =>
                  log[j].original_emojis = << <<CP.dog, CP.dog>>, <<CP.apple>> >>

C7_Witness == PetsHandled /\ Directory[PetsFile].name \in DOMAIN out

(* What the HTML handler emits for one token when references are re-emitted. *)
token_reemitted(tok, emoji_map) ==
    IF tok.kind = "data" THEN replace_emojis(tok.text, emoji_map) ELSE token_source(tok)

(* C8: the HTML handler re-emits every entity reference and every numeric  *)
(* character reference of the character data in its original textual form *)
(* at the same position; no reference is decoded.                          *)
C8_ReferencesReemitted ==
    \A j \in DOMAIN log :
        (log[j].event = "handled" /\ log[j].handler = "process_html_file") =>
            LET tokens == Directory[log[j].file].parsed.doc
            IN  out[log[j].name]
                    = ConcatAll([k \in DOMAIN tokens |->
                                    token_reemitted(tokens[k], log[j].emoji_map)])

(* C9: the files are processed one after another in listing order, each at *)
(* most once; a fatal error ends the run at that file: it is the last one  *)
(* touched, nothing is written for it or any later file, nothing is        *)
(* retried; a run that is not halted ends with every file processed once.  *)
C9_SequentialOrHalt ==
    /\ Len(log) <= Len(files)
    /\ \A j \in DOMAIN log : log[j].file = files[j]
    /\ \A j \in DOMAIN log : Fatal(log[j]) => (j = Len(log) /\ pc = "halted")
    /\ pc = "halted" => (log # <<>> /\ Fatal(log[Len(log)]))
    /\ pc = "loop" => Len(log) = idx - 1
    /\ pc = "done" => Len(log) = Len(files)
    /\ DOMAIN out = {log[j].name : j \in {h \in DOMAIN log : log[h].event = "handled"}}

C9_Witness ==
    /\ pc = "halted"
    /\ Len(log) = 1
    /\ Len(files) = 2
    /\ Directory[files[2]].readable
    /\ findall(Directory[files[2]].text) # <<>>
    /\ out = <<>>

(* C10: build_emoji_map leaves the global pool as it was, so after any     *)
(* sequence of files the first distinct emoji of a file is mapped to the   *)
(* pool's first element.                                                   *)
C10_PoolUnchanged ==
    /\ ANDROID_EMOJI_POOL = InitialPool
    /\ \A j \in DOMAIN log :
          BuiltMap(log[j]) =>
              log[j].emoji_map[log[j].original_emojis[1]] = InitialPool[1]

C10_Witness ==
    /\ Len(log) = 2
    /\ log[1].event = "handled"
    /\ Cardinality(DOMAIN log[1].emoji_map) = 2
    /\ log[2].event = "handled"

====
